---- MODULE Spec2Model ----
(***************************************************************************)
(* Share-based tool scheduler of src/code/hw1.c with the waiting heap of   *)
(* src/code/hw1_submission/hw1/heap.c.                                     *)
(*                                                                         *)
(* Every critical section (code between pthread_mutex_lock and             *)
(* pthread_mutex_unlock on shm->global_mutex) is one atomic action, so     *)
(* every state of the model is a state in which the mutex is free.  All    *)
(* calls of get_current_time_ms() inside one critical section read the     *)
(* same clock value `now`.  Shares are doubles in the source; here they    *)
(* are exact rationals stored as integers in units of 1/ShareScale ms.     *)
(* wait_start and handle_report (read-only, uses wait_start only) are not  *)
(* modelled.                                                               *)
(***************************************************************************)
EXTENDS Integers, Sequences, FiniteSets, TLC

\* ---------------------------------------------------------------- bounds
MaxCustomers == 2
MaxTools == 2
MaxQuantum == 2
MaxDuration == 2
MaxTime == 3
MaxDrift == 0
MaxCommands == 3
HeapNodes == 6
HeapMaxKey == 1
HeapCalls == 7
LockEvents == 3
LockTime == 1
LongDuration == 4
TickSlack == 1

\* ------------------------------------------------------------- constants
NIL == -1

RESTING == "RESTING"
WAITING == "WAITING"
USING == "USING"
DELETED == "DELETED"
CustomerState == {RESTING, WAITING, USING, DELETED}

EVENT_NONE == "NONE"
EVENT_TOOL_ASSIGNED == "ASSIGNED"
EVENT_TOOL_REMOVED == "REMOVED"
EVENT_TOOL_COMPLETED == "COMPLETED"
EventType == {EVENT_NONE, EVENT_TOOL_ASSIGNED, EVENT_TOOL_REMOVED, EVENT_TOOL_COMPLETED}

Slots == 0 .. (MaxCustomers - 1)

RECURSIVE Fact(_)
Fact(n) == IF n <= 1 THEN 1 ELSE n * Fact(n - 1)

\* one millisecond of share; every division of allocate_customer is exact
ShareScale == Fact(MaxCustomers - 1)

VARIABLES shm, now, stdout, last, commands, cancelled, socket, log, mutex, pc

vars == <<shm, now, stdout, last, commands, cancelled, socket, log, mutex, pc>>

\* the shared memory together with the clock, the lines printed so far in
\* the running critical section, and the nodes for which heap_insert has
\* answered in it that they are already in the heap
World == shm @@ [now |-> now, stdout |-> <<>>, rejected |-> <<>>]

\* the shared-memory part of a world
Shm(s) == [f \in DOMAIN shm |-> s[f]]

\* ------------------------------------------------------------------ heap
heap_parent(i) == (i - 1) \div 2
heap_left(i) == (2 * i) + 1
heap_right(i) == (2 * i) + 2

\* MAX_NODES of heap.c: the number of entries of the node array
MAX_NODES(s) == Cardinality(DOMAIN s.heap_nodes)

heap_swap(s, i, j) ==
  LET node_i == s.heap_array[i]
      node_j == s.heap_array[j]
      a1 == [s.heap_array EXCEPT ![i] = node_j]
      a2 == [a1 EXCEPT ![j] = node_i]
      g1 == [s.heap_nodes EXCEPT ![node_i].heap_index = j]
      g2 == [g1 EXCEPT ![node_j].heap_index = i]
  IN [s EXCEPT !.heap_array = a2, !.heap_nodes = g2]

\* a bubble-down that never looks at the right child
RECURSIVE min_heapify_left_only(_, _)
min_heapify_left_only(s, i) ==
  LET l == heap_left(i)
      key(p) == s.heap_nodes[s.heap_array[p]].key
      smallest == IF l < s.heap_size /\ key(l) < key(i) THEN l ELSE i
  IN IF smallest # i
     THEN min_heapify_left_only(heap_swap(s, i, smallest), smallest)
     ELSE s

RECURSIVE min_heapify(_, _)
min_heapify(s, i) ==
  LET l == heap_left(i)
      r == heap_right(i)
      key(p) == s.heap_nodes[s.heap_array[p]].key
      sm1 == IF l < s.heap_size /\ key(l) < key(i) THEN l ELSE i
      smallest == IF r < s.heap_size /\ key(r) < key(sm1) THEN r ELSE sm1
  IN IF smallest # i THEN min_heapify(heap_swap(s, i, smallest), smallest)
     ELSE s

RECURSIVE bubble_up(_, _)
bubble_up(s, i) ==
  IF i > 0 /\ s.heap_nodes[s.heap_array[heap_parent(i)]].key
               > s.heap_nodes[s.heap_array[i]].key
  THEN bubble_up(heap_swap(s, i, heap_parent(i)), heap_parent(i))
  ELSE s

\* an insertion that forgets the back-pointer of the new node
heap_insert_no_backpointer(s, nodeindex) ==
  IF s.heap_size >= MAX_NODES(s) THEN s
  ELSE IF nodeindex < 0 \/ nodeindex >= MAX_NODES(s) THEN s
  ELSE IF s.heap_nodes[nodeindex].heap_index # NIL THEN s
  ELSE LET i == s.heap_size
           s1 == [s EXCEPT !.heap_array[i] = nodeindex,
                           !.heap_size = i + 1]
       IN bubble_up(s1, i)

\* an insertion that does not test whether the node is already queued
heap_insert_duplicate(s, nodeindex) ==
  IF s.heap_size >= MAX_NODES(s) THEN s
  ELSE IF nodeindex < 0 \/ nodeindex >= MAX_NODES(s) THEN s
  ELSE LET i == s.heap_size
           s1 == [s EXCEPT !.heap_array[i] = nodeindex,
                           !.heap_nodes[nodeindex].heap_index = i,
                           !.heap_size = i + 1]
       IN bubble_up(s1, i)

\* the value heap_insert returns
heap_insert_result(s, nodeindex) ==
  IF s.heap_size >= MAX_NODES(s) THEN -1
  ELSE IF nodeindex < 0 \/ nodeindex >= MAX_NODES(s) THEN -1
  ELSE IF s.heap_nodes[nodeindex].heap_index # NIL THEN -1
  ELSE 0

heap_insert(s, nodeindex) ==
  IF s.heap_size >= MAX_NODES(s) THEN s
  ELSE IF nodeindex < 0 \/ nodeindex >= MAX_NODES(s) THEN s
  ELSE IF s.heap_nodes[nodeindex].heap_index # NIL
  THEN [s EXCEPT !.rejected = Append(@, nodeindex)]
  ELSE LET i == s.heap_size
           s1 == [s EXCEPT !.heap_array[i] = nodeindex,
                           !.heap_nodes[nodeindex].heap_index = i,
                           !.heap_size = i + 1]
       IN bubble_up(s1, i)

\* the value heap_pop returns
heap_pop_result(s) == IF s.heap_size <= 0 THEN NIL ELSE s.heap_array[0]

heap_pop(s) ==
  IF s.heap_size <= 0 THEN s
  ELSE LET min_node_index == s.heap_array[0]
           s1 == heap_swap(s, 0, s.heap_size - 1)
           s2 == [s1 EXCEPT !.heap_size = @ - 1,
                            !.heap_nodes[min_node_index].heap_index = NIL]
       IN IF s2.heap_size > 0 THEN min_heapify(s2, 0) ELSE s2

\* a deletion that only ever bubbles the moved node down
heap_delete_down_only(s, nodeindex) ==
  IF nodeindex < 0 \/ nodeindex >= MAX_NODES(s)
     \/ s.heap_nodes[nodeindex].heap_index = NIL THEN s
  ELSE LET i == s.heap_nodes[nodeindex].heap_index
           s1 == heap_swap(s, i, s.heap_size - 1)
           s2 == [s1 EXCEPT !.heap_size = @ - 1,
                            !.heap_nodes[nodeindex].heap_index = NIL]
       IN IF i < s2.heap_size THEN min_heapify(s2, i) ELSE s2

\* the value heap_delete returns
heap_delete_result(s, nodeindex) ==
  IF nodeindex < 0 \/ nodeindex >= MAX_NODES(s)
     \/ s.heap_nodes[nodeindex].heap_index = NIL THEN -1
  ELSE 0

heap_delete(s, nodeindex) ==
  IF nodeindex < 0 \/ nodeindex >= MAX_NODES(s)
     \/ s.heap_nodes[nodeindex].heap_index = NIL THEN s
  ELSE LET i == s.heap_nodes[nodeindex].heap_index
           s1 == heap_swap(s, i, s.heap_size - 1)
           s2 == [s1 EXCEPT !.heap_size = @ - 1,
                            !.heap_nodes[nodeindex].heap_index = NIL]
       IN IF i < s2.heap_size
          THEN IF i > 0 /\ s2.heap_nodes[s2.heap_array[i]].key
                            < s2.heap_nodes[s2.heap_array[heap_parent(i)]].key
               THEN bubble_up(s2, i)
               ELSE min_heapify(s2, i)
          ELSE s2

\* ------------------------------------------------------------- scheduler
get_current_time_ms(s) == s.now

\* a line written to standard output: the event, the customer slot, the
\* share as printed by "%d" of (int)c->share, the tool, and the usage that
\* remove_customer_from_tool charged (0 for an assignment)
LogLine(event, customer_idx, share, tool_id, usage) ==
  [event |-> event, customer |-> customer_idx, share |-> share \div ShareScale,
   tool |-> tool_id, usage |-> usage]

setup_shared_memory(q, Q, k) ==
  [customers |-> [i \in Slots |->
      [customer_id |-> -1, is_allocated |-> 0, state |-> DELETED, share |-> 0,
       request_duration |-> 0, remaining_duration |-> 0, current_tool |-> -1,
       session_start |-> 0, event_pending |-> 0, event_type |-> EVENT_NONE,
       event_tool_id |-> 0]],
   free_customer_slots |-> [i \in Slots |-> i],
   free_customer_count |-> MaxCustomers,
   waiting_count |-> 0,
   tools |-> [i \in 0 .. (k - 1) |->
      [tool_id |-> i, total_usage |-> 0, current_user |-> -1,
       current_usage |-> 0, session_start |-> 0]],
   num_tools |-> k,
   total_customers |-> 0,
   resting_customers |-> 0,
   total_share |-> 0,
   q |-> q,
   Q |-> Q,
   heap_nodes |-> [i \in Slots |-> [key |-> 0, heap_index |-> NIL]],
   heap_array |-> [i \in Slots |-> 0],
   heap_size |-> 0,
   server_should_exit |-> 0]

\* the slot allocate_customer returns
allocate_customer_result(s) ==
  IF s.free_customer_count <= 0 THEN -1
  ELSE s.free_customer_slots[s.free_customer_count - 1]

allocate_customer(s, customer_id) ==
  IF s.free_customer_count <= 0 THEN s
  ELSE LET idx == s.free_customer_slots[s.free_customer_count - 1]
           share == IF s.total_customers > 0
                    THEN s.total_share \div s.total_customers
                    ELSE 0
       IN [s EXCEPT !.free_customer_count = @ - 1,
                    !.customers[idx].is_allocated = 1,
                    !.customers[idx].customer_id = customer_id,
                    !.customers[idx].state = RESTING,
                    !.customers[idx].share = share,
                    !.customers[idx].request_duration = 0,
                    !.customers[idx].remaining_duration = 0,
                    !.customers[idx].current_tool = -1,
                    !.customers[idx].session_start = 0,
                    !.customers[idx].event_pending = 0,
                    !.customers[idx].event_type = EVENT_NONE,
                    !.total_customers = @ + 1,
                    !.resting_customers = @ + 1,
                    !.total_share = @ + share]

deallocate_customer(s, customer_idx) ==
  LET c == s.customers[customer_idx] IN
  IF c.is_allocated = 0 THEN s
  ELSE
    LET s1 == IF c.state = RESTING THEN [s EXCEPT !.resting_customers = @ - 1]
              ELSE IF c.state = WAITING THEN
                LET h == IF s.heap_nodes[customer_idx].heap_index # NIL
                         THEN heap_delete(s, customer_idx) ELSE s
                IN [h EXCEPT !.waiting_count = @ - 1]
              ELSE IF c.state = USING THEN
                IF c.current_tool >= 0 /\ c.current_tool < s.num_tools
                THEN [s EXCEPT !.tools[c.current_tool].current_user = -1,
                               !.tools[c.current_tool].current_usage = 0]
                ELSE s
              ELSE s
    IN [s1 EXCEPT !.total_customers = @ - 1,
                  !.total_share = @ - c.share,
                  !.customers[customer_idx].is_allocated = 0,
                  !.customers[customer_idx].state = DELETED,
                  !.customers[customer_idx].customer_id = -1,
                  !.customers[customer_idx].current_tool = -1,
                  !.free_customer_slots[s.free_customer_count] = customer_idx,
                  !.free_customer_count = @ + 1]

RECURSIVE find_free_tool_loop(_, _, _, _)
find_free_tool_loop(s, i, best_tool, min_usage) ==
  IF i >= s.num_tools THEN best_tool
  ELSE IF s.tools[i].current_user = -1
          /\ (min_usage = NIL \/ s.tools[i].total_usage < min_usage
              \/ (s.tools[i].total_usage = min_usage
                  /\ (best_tool = -1 \/ i < best_tool)))
       THEN find_free_tool_loop(s, i + 1, i, s.tools[i].total_usage)
       ELSE find_free_tool_loop(s, i + 1, best_tool, min_usage)

\* a selection that ignores total_usage: the free tool with the smallest id
find_free_tool_first(s) ==
  IF \E t \in 0 .. (s.num_tools - 1) : s.tools[t].current_user = -1
  THEN CHOOSE t \in 0 .. (s.num_tools - 1) :
         /\ s.tools[t].current_user = -1
         /\ \A u \in 0 .. (t - 1) : s.tools[u].current_user # -1
  ELSE -1

\* min_usage starts at LLONG_MAX, written NIL here: every usage is below it
find_free_tool(s) == find_free_tool_loop(s, 0, -1, NIL)

RECURSIVE find_candidate_loop(_, _, _, _)
find_candidate_loop(s, i, candidate, max_usage) ==
  IF i >= s.num_tools THEN candidate
  ELSE IF s.tools[i].current_user # -1
          /\ (s.tools[i].current_usage > max_usage
              \/ (s.tools[i].current_usage = max_usage
                  /\ (candidate = -1 \/ i < candidate)))
       THEN find_candidate_loop(s, i + 1, i, s.tools[i].current_usage)
       ELSE find_candidate_loop(s, i + 1, candidate, max_usage)

find_preemption_candidate(s, new_share) ==
  LET candidate == find_candidate_loop(s, 0, -1, 0) IN
  IF candidate = -1 THEN -1
  ELSE LET user_idx == s.tools[candidate].current_user
           c == s.customers[user_idx]
       IN IF c.share < new_share THEN -1
          ELSE IF s.tools[candidate].current_usage < s.q THEN -1
          ELSE candidate

assign_tool_to_customer(s, customer_idx, tool_id) ==
  LET c == s.customers[customer_idx]
      s1 == IF c.state = WAITING THEN
              LET h == IF s.heap_nodes[customer_idx].heap_index # NIL
                       THEN heap_delete(s, customer_idx) ELSE s
              IN [h EXCEPT !.waiting_count = @ - 1]
            ELSE s
      t == get_current_time_ms(s)
  IN [s1 EXCEPT !.customers[customer_idx].state = USING,
                !.customers[customer_idx].current_tool = tool_id,
                !.customers[customer_idx].session_start = t,
                !.tools[tool_id].current_user = customer_idx,
                !.tools[tool_id].current_usage = 0,
                !.tools[tool_id].session_start = t,
                !.customers[customer_idx].event_pending = 1,
                !.customers[customer_idx].event_type = EVENT_TOOL_ASSIGNED,
                !.customers[customer_idx].event_tool_id = tool_id,
                !.stdout = Append(@, LogLine(EVENT_TOOL_ASSIGNED, customer_idx,
                                             c.share, tool_id, 0))]

remove_customer_from_tool(s, customer_idx, event) ==
  LET c == s.customers[customer_idx] IN
  IF c.current_tool = -1 THEN s
  ELSE LET tool == c.current_tool
           usage == get_current_time_ms(s) - c.session_start
           share == c.share + usage * ShareScale
       IN [s EXCEPT !.customers[customer_idx].share = share,
                    !.total_share = @ + usage * ShareScale,
                    !.tools[tool].total_usage = @ + usage,
                    !.stdout = Append(@, LogLine(event, customer_idx, share,
                                                 tool, usage)),
                    !.tools[tool].current_user = -1,
                    !.tools[tool].current_usage = 0,
                    !.customers[customer_idx].current_tool = -1,
                    !.customers[customer_idx].event_pending = 1,
                    !.customers[customer_idx].event_type = event,
                    !.customers[customer_idx].event_tool_id = s.tools[tool].tool_id]

assign_next_from_queue(s, tool_id) ==
  IF s.heap_size <= 0 THEN s
  ELSE LET next_idx == heap_pop_result(s)
           s1 == heap_pop(s)
       IN IF next_idx # NIL /\ next_idx >= 0
          THEN assign_tool_to_customer(s1, next_idx, tool_id)
          ELSE s1

handle_request(s, customer_idx, duration) ==
  LET c == s.customers[customer_idx]
      s1 == IF c.state = RESTING THEN [s EXCEPT !.resting_customers = @ - 1]
            ELSE IF c.state = WAITING THEN
              LET h == IF s.heap_nodes[customer_idx].heap_index # NIL
                       THEN heap_delete(s, customer_idx) ELSE s
              IN [h EXCEPT !.waiting_count = @ - 1]
            ELSE s
      s2 == [s1 EXCEPT !.customers[customer_idx].request_duration = duration,
                       !.customers[customer_idx].remaining_duration = duration]
      tool == find_free_tool(s2)
  IN IF tool # -1 THEN assign_tool_to_customer(s2, customer_idx, tool)
     ELSE
       LET ptool == find_preemption_candidate(s2, s2.customers[customer_idx].share) IN
       IF ptool # -1 THEN
         LET old_user == s2.tools[ptool].current_user
             s3 == remove_customer_from_tool(s2, old_user, EVENT_TOOL_REMOVED)
             s4 == [s3 EXCEPT !.customers[old_user].state = WAITING,
                              !.heap_nodes[old_user].key = s3.customers[old_user].share]
             s5 == heap_insert(s4, old_user)
             s6 == [s5 EXCEPT !.waiting_count = @ + 1]
         IN assign_tool_to_customer(s6, customer_idx, ptool)
       ELSE
         LET s3 == [s2 EXCEPT !.customers[customer_idx].state = WAITING,
                              !.heap_nodes[customer_idx].key = s2.customers[customer_idx].share]
             s4 == heap_insert(s3, customer_idx)
         IN [s4 EXCEPT !.waiting_count = @ + 1]

\* a REST that counts a customer that is already Resting once more
handle_rest_recount(s, customer_idx) ==
  LET c == s.customers[customer_idx] IN
  IF c.state = USING THEN
    LET tool_id == c.current_tool
        s1 == remove_customer_from_tool(s, customer_idx, EVENT_TOOL_COMPLETED)
        s2 == IF tool_id # -1 THEN assign_next_from_queue(s1, tool_id) ELSE s1
    IN [s2 EXCEPT !.customers[customer_idx].state = RESTING,
                  !.resting_customers = @ + 1]
  ELSE IF c.state = WAITING THEN
    LET h == IF s.heap_nodes[customer_idx].heap_index # NIL
             THEN heap_delete(s, customer_idx) ELSE s
    IN [h EXCEPT !.waiting_count = @ - 1,
                 !.customers[customer_idx].state = RESTING,
                 !.resting_customers = @ + 1]
  ELSE [s EXCEPT !.resting_customers = @ + 1]

handle_rest(s, customer_idx) ==
  LET c == s.customers[customer_idx] IN
  IF c.state = USING THEN
    LET tool_id == c.current_tool
        s1 == remove_customer_from_tool(s, customer_idx, EVENT_TOOL_COMPLETED)
        s2 == IF tool_id # -1 THEN assign_next_from_queue(s1, tool_id) ELSE s1
    IN [s2 EXCEPT !.customers[customer_idx].state = RESTING,
                  !.resting_customers = @ + 1]
  ELSE IF c.state = WAITING THEN
    LET h == IF s.heap_nodes[customer_idx].heap_index # NIL
             THEN heap_delete(s, customer_idx) ELSE s
    IN [h EXCEPT !.waiting_count = @ - 1,
                 !.customers[customer_idx].state = RESTING,
                 !.resting_customers = @ + 1]
  ELSE s

\* a test that also lets a waiter of equal share preempt
share_preemption_test_le(s, user) ==
  LET min_idx == s.heap_array[0] IN
  /\ min_idx >= 0
  /\ min_idx < MaxCustomers
  /\ s.customers[min_idx].share <= s.customers[user].share

\* the test of the q branch of tool_process: the customer at the root of the
\* heap has a smaller share than the holder
share_preemption_test(s, user) ==
  LET min_idx == s.heap_array[0] IN
  /\ min_idx >= 0
  /\ min_idx < MaxCustomers
  /\ s.customers[min_idx].share < s.customers[user].share

\* a test that lets a holder stay at exactly Q
quantum_expired_late(s, elapsed) == elapsed > s.Q

\* the test of the Q branch of tool_process
quantum_expired(s, elapsed) == elapsed >= s.Q

\* one iteration of the loop of tool_process, from lock to unlock
tool_process(s, tool_id) ==
  LET t == s.tools[tool_id] IN
  IF s.server_should_exit = 1 THEN s
  ELSE IF t.current_user = -1 THEN s
  ELSE
    LET user == t.current_user
        c == s.customers[user]
        elapsed == get_current_time_ms(s) - t.session_start
        remaining == c.request_duration - elapsed
        s1 == [s EXCEPT !.tools[tool_id].current_usage = elapsed,
                        !.customers[user].remaining_duration =
                            IF remaining < 0 THEN 0 ELSE remaining]
    IN IF s1.customers[user].remaining_duration <= 0 THEN
         LET s2 == remove_customer_from_tool(s1, user, EVENT_TOOL_COMPLETED)
             s3 == [s2 EXCEPT !.customers[user].state = RESTING,
                              !.resting_customers = @ + 1]
         IN assign_next_from_queue(s3, tool_id)
       ELSE IF quantum_expired(s1, elapsed) THEN
         IF s1.heap_size > 0 THEN
           LET old_user == s1.tools[tool_id].current_user
               s2 == remove_customer_from_tool(s1, old_user, EVENT_TOOL_REMOVED)
               s3 == [s2 EXCEPT !.customers[old_user].state = WAITING,
                                !.heap_nodes[old_user].key = s2.customers[old_user].share]
               s4 == heap_insert(s3, old_user)
               s5 == [s4 EXCEPT !.waiting_count = @ + 1]
           IN assign_next_from_queue(s5, tool_id)
         ELSE s1
       ELSE IF elapsed >= s1.q /\ s1.heap_size > 0 THEN
         IF share_preemption_test(s1, user) THEN
           LET old_user == s1.tools[tool_id].current_user
               s2 == remove_customer_from_tool(s1, old_user, EVENT_TOOL_REMOVED)
               s3 == [s2 EXCEPT !.customers[old_user].state = WAITING,
                                !.heap_nodes[old_user].key = s2.customers[old_user].share]
               s4 == heap_insert(s3, old_user)
               s5 == [s4 EXCEPT !.waiting_count = @ + 1]
           IN assign_next_from_queue(s5, tool_id)
         ELSE s1
       ELSE s1

\* the critical section of agent_process that follows the socket reader
agent_cleanup(s, customer_idx) ==
  LET c == s.customers[customer_idx]
      s1 == IF c.state = USING /\ c.current_tool # -1
            THEN assign_next_from_queue(
                   remove_customer_from_tool(s, customer_idx, EVENT_TOOL_COMPLETED),
                   c.current_tool)
            ELSE s
  IN [s1 EXCEPT !.customers[customer_idx].is_allocated = 0]

\* the line agent_notify_thread formats from what it read under the mutex
notify_line_current_tool(s, customer_idx) ==
  LET c == s.customers[customer_idx]
  IN [event |-> c.event_type, customer |-> c.customer_id,
      share |-> c.share \div ShareScale, tool |-> c.current_tool]

notify_line(s, customer_idx) ==
  LET c == s.customers[customer_idx]
  IN [event |-> c.event_type, customer |-> c.customer_id,
      share |-> c.share \div ShareScale, tool |-> c.event_tool_id]

\* agent_notify_thread with an event pending: the slot is emptied
agent_notify_thread(s, customer_idx) ==
  [s EXCEPT !.customers[customer_idx].event_pending = 0]

\* signal_handler inside its critical section
signal_handler(s) == [s EXCEPT !.server_should_exit = 1]

\* ---------------------------------------------------------------- threads
\* the threads that lock the mutex: the acceptor, the runner of each tool and
\* the two threads of each agent (the agent's main thread, which only runs
\* before and after its socket reader, is taken together with the reader)
Threads ==
  ({"main"} \X {0}) \cup ({"tool"} \X (0 .. (MaxTools - 1)))
    \cup ({"agent"} \X Slots) \cup ({"notify"} \X Slots)

NoThread == <<"none", 0>>

\* where each thread is, the command it is serving, and where its
\* signal_handler is if a signal interrupted it
Started ==
  [p \in Threads |->
     [at |-> IF p[1] = "main" THEN "accept"
             ELSE IF p[1] = "tool" THEN "loop" ELSE "unborn",
      arg |-> 0,
      handler |-> "no"]]

\* ---------------------------------------------------------------- history
\* log is a history variable: for each slot the latest line of standard
\* output about its customer (without the usage, which is not printed) and
\* whether a socket line was sent since; for each tool the customer that
\* standard output shows on it; for each slot the tool time its customer was
\* charged since its latest REQUEST
NoLine == [event |-> EVENT_NONE, customer |-> NIL, share |-> 0, tool |-> NIL]

NoLog ==
  [line |-> [i \in Slots |-> NoLine],
   sent |-> [i \in Slots |-> FALSE],
   holder |-> [t \in 0 .. (MaxTools - 1) |-> NIL],
   served |-> [i \in Slots |-> 0]]

Printed(l) ==
  [event |-> l.event, customer |-> l.customer, share |-> l.share,
   tool |-> l.tool]

\* the positions of the lines about slot i
LinesOf(lines, i) == {n \in DOMAIN lines : lines[n].customer = i}

\* the positions of the lines about tool t
LinesOn(lines, t) == {n \in DOMAIN lines : lines[n].tool = t}

Latest(S) == CHOOSE n \in S : \A m \in S : m <= n

\* the tool time that the lines charge to slot i: the usage of its
\* TOOL_REMOVED and TOOL_COMPLETED lines
RECURSIVE Charged(_, _)
Charged(lines, i) ==
  IF lines = <<>> THEN 0
  ELSE Charged(Tail(lines), i)
         + (IF Head(lines).customer = i
               /\ Head(lines).event \in {EVENT_TOOL_REMOVED, EVENT_TOOL_COMPLETED}
            THEN Head(lines).usage ELSE 0)

Record(h, lines, op, idx) ==
  [line |-> [i \in Slots |->
               IF LinesOf(lines, i) # {}
               THEN Printed(lines[Latest(LinesOf(lines, i))])
               ELSE IF op = "connect" /\ idx = i THEN NoLine
               ELSE h.line[i]],
   sent |-> [i \in Slots |->
               IF LinesOf(lines, i) # {} THEN FALSE
               ELSE IF op = "connect" /\ idx = i THEN FALSE
               ELSE IF op = "send" /\ idx = i THEN TRUE
               ELSE h.sent[i]],
   holder |-> [t \in 0 .. (MaxTools - 1) |->
               IF LinesOn(lines, t) = {} THEN h.holder[t]
               ELSE LET l == lines[Latest(LinesOn(lines, t))]
                    IN IF l.event = EVENT_TOOL_ASSIGNED THEN l.customer
                       ELSE NIL],
   served |-> [i \in Slots |->
               IF op \in {"connect", "request"} /\ idx = i THEN 0
               ELSE h.served[i] + Charged(lines, i)]]

\* ---------------------------------------------------------------- actions
Init ==
  /\ \E q \in 1 .. MaxQuantum, Q \in 1 .. MaxQuantum, k \in 1 .. MaxTools :
       shm = setup_shared_memory(q, Q, k)
  /\ now = 0
  /\ stdout = <<>>
  /\ last = [op |-> "init", idx |-> -1]
  /\ commands = 0
  /\ cancelled = {}
  /\ socket = <<>>
  /\ log = NoLog
  /\ mutex = NoThread
  /\ pc = Started

\* the counters are ints; the model follows them while they stay within
\* MaxDrift of the range 0 .. MaxCustomers
\* the configuration that is followed furthest: one tool, q = Q = 1
SmallestConfiguration == shm.num_tools = 1 /\ shm.q = 1 /\ shm.Q = 1

\* the number of REQUEST, REST and QUIT commands that are followed
CommandBudget ==
  IF SmallestConfiguration THEN MaxCommands + 1 ELSE MaxCommands

\* the durations a REQUEST is followed with; LongDuration outlasts Q by more
\* than TickSlack
Durations ==
  IF SmallestConfiguration THEN (1 .. MaxDuration) \cup {LongDuration}
  ELSE 1 .. MaxDuration

CounterRange == (0 - MaxDrift) .. (MaxCustomers + MaxDrift)

\* cancelled is a history variable: the customers whose latest command other
\* than a later REST was a REST taken while Waiting
Effect(s, op, idx) ==
  /\ shm' = Shm(s)
  /\ stdout' = s.stdout
  /\ last' = [op |-> op, idx |-> idx]
  /\ now' = now
  /\ cancelled' = IF op = "rest" /\ shm.customers[idx].state = WAITING
                  THEN cancelled \cup {idx}
                  ELSE IF op \in {"request", "quit"} THEN cancelled \ {idx}
                  ELSE cancelled
  /\ socket' = IF op = "send" THEN <<notify_line(World, idx)>> ELSE <<>>
  /\ log' = Record(log, s.stdout, op, idx)

\* a critical section taken as one step, from lock to unlock
Commit(s, op, idx) ==
  /\ s.waiting_count \in CounterRange
  /\ s.resting_customers \in CounterRange
  /\ Effect(s, op, idx)
  /\ UNCHANGED <<mutex, pc>>

\* the socket reader of the agent of slot i is in its recv loop
Running(i) == shm.customers[i].is_allocated = 1

\* accept + fork + agent_process up to the creation of the two threads;
\* getpid() is modelled by the slot number
Connect ==
  /\ allocate_customer_result(World) # -1
  /\ Commit(allocate_customer(World, allocate_customer_result(World)),
            "connect", allocate_customer_result(World))
  /\ UNCHANGED commands

\* agent_socket_thread reads "REQUEST <duration>" with duration > 0
Submit(i, duration) ==
  /\ Running(i)
  /\ commands < CommandBudget
  /\ commands' = commands + 1
  /\ Commit(handle_request(World, i, duration), "request", i)

Request(i, duration) ==
  /\ duration \in Durations
  /\ Submit(i, duration)

\* agent_socket_thread reads "REST"
Rest(i) ==
  /\ Running(i)
  /\ commands < CommandBudget
  /\ commands' = commands + 1
  /\ Commit(handle_rest(World, i), "rest", i)

\* agent_socket_thread reads "QUIT" or end of file and returns; agent_process
\* runs its two critical sections.  The second one only calls
\* deallocate_customer, which reads nothing but the flag that the first one
\* cleared and that nobody sets in between, so the two are taken in one step.
Quit(i) ==
  /\ Running(i)
  /\ commands < CommandBudget
  /\ commands' = commands + 1
  /\ Commit(deallocate_customer(agent_cleanup(World, i), i), "quit", i)

\* agent_notify_thread takes the pending event out of the slot and sends it
NotifySend(i) ==
  /\ shm.customers[i].is_allocated = 1
  /\ shm.customers[i].event_pending = 1
  /\ Commit(agent_notify_thread(World, i), "send", i)
  /\ UNCHANGED commands

\* one loop iteration of the runner of tool tool_id
ToolTick(tool_id) ==
  /\ tool_id < shm.num_tools
  /\ Commit(tool_process(World, tool_id), "tick", tool_id)
  /\ UNCHANGED commands

\* the monotonic clock moves on by one millisecond
Advance ==
  /\ now < MaxTime
  /\ now' = now + 1
  /\ stdout' = <<>>
  /\ last' = [op |-> "advance", idx |-> -1]
  /\ socket' = <<>>
  /\ UNCHANGED <<shm, commands, cancelled, log, mutex, pc>>

Next ==
  \/ Connect
  \/ \E i \in Slots, duration \in 1 .. LongDuration : Request(i, duration)
  \/ \E i \in Slots : Rest(i)
  \/ \E i \in Slots : Quit(i)
  \/ \E i \in Slots : NotifySend(i)
  \/ \E tool_id \in 0 .. (MaxTools - 1) : ToolTick(tool_id)
  \/ Advance

Spec == Init /\ [][Next]_vars

\* ---------------------------------------------------------------- claims
Tools == 0 .. (shm.num_tools - 1)
Allocated(i) == shm.customers[i].is_allocated = 1
InHeap(m, i) == m.heap_nodes[i].heap_index # NIL
WaitingSet == {i \in Slots : shm.customers[i].state = WAITING}
LoggedEvents == {stdout[n] : n \in DOMAIN stdout}

\* C1: whenever the mutex is free, tools[t].current_user = c holds exactly
\* when customer c is Using with current_tool = t (so no customer is the
\* current_user of two tools).
C1_ToolUserPairing ==
  \A t \in Tools, c \in Slots :
    (shm.tools[t].current_user = c)
      <=> (shm.customers[c].state = USING /\ shm.customers[c].current_tool = t)

\* C2: whenever the mutex is free, waiting_count equals the heap size and
\* the number of customers whose state is Waiting.
C2_WaitingCount ==
  /\ shm.waiting_count = shm.heap_size
  /\ shm.waiting_count = Cardinality(WaitingSet)

\* C3: whenever the mutex is free, an allocated customer is in the waiting
\* heap (back-pointer not NIL) if and only if its state is Waiting.
C3_QueuedIffWaiting ==
  \A c \in Slots :
    Allocated(c) => (InHeap(shm, c) <=> shm.customers[c].state = WAITING)

\* C4: no TOOL_REMOVED is issued for a session in which fewer than q ms have
\* elapsed since the customer's session_start, whatever q, Q and k are.
C4_ProtectedQuantum ==
  \A e \in LoggedEvents : e.event = EVENT_TOOL_REMOVED => e.usage >= shm.q

\* the customers in HEAP_ARRAY[0 .. heap_size-1] of a shared memory m
HeapMembers(m) == {m.heap_array[p] : p \in 0 .. (m.heap_size - 1)}
Holder(t) == shm.tools[t].current_user
Elapsed(t) == now - shm.tools[t].session_start
\* the critical section just taken printed a line of this event for c
Logged(event, c) ==
  \E n \in DOMAIN stdout' : stdout'[n].event = event /\ stdout'[n].customer = c
LoggedOn(event, c, t) ==
  \E n \in DOMAIN stdout' :
    stdout'[n].event = event /\ stdout'[n].customer = c /\ stdout'[n].tool = t
\* the critical section just taken left this event in the mailbox of c
Notified(c, event, t) ==
  /\ shm'.customers[c].event_pending = 1
  /\ shm'.customers[c].event_type = event
  /\ shm'.customers[c].event_tool_id = t
NoFreeTool == \A t \in Tools : shm.tools[t].current_user # -1
\* smallest share among the queued customers
IsMinWaiter(c) ==
  /\ c \in HeapMembers(shm)
  /\ \A d \in HeapMembers(shm) : shm.customers[c].share <= shm.customers[d].share

\* C5: a tick that finds the holder unfinished, elapsed >= Q and the queue
\* non-empty leaves the holder Waiting and the tool bound to a different
\* customer, one that was queued before the tick.
C5_MaxQuantumStep(t) ==
  LET u == Holder(t) IN
  (/\ ToolTick(t)
   /\ u # -1
   /\ shm.customers[u].request_duration - Elapsed(t) > 0
   /\ Elapsed(t) >= shm.Q
   /\ shm.heap_size > 0)
  => /\ shm'.customers[u].state = WAITING
     /\ shm'.tools[t].current_user # u
     /\ shm'.tools[t].current_user \in HeapMembers(shm)

C5_MaxQuantum == [][\A t \in 0 .. (MaxTools - 1) : C5_MaxQuantumStep(t)]_vars

\* the free tool with the smallest total_usage, ties to the smallest tool_id
IsLeastUsedFreeTool(f) ==
  /\ f \in Tools
  /\ shm.tools[f].current_user = -1
  /\ \A t \in Tools :
       shm.tools[t].current_user = -1 =>
         \/ shm.tools[f].total_usage < shm.tools[t].total_usage
         \/ (shm.tools[f].total_usage = shm.tools[t].total_usage /\ f <= t)

\* C6: a REQUEST that finds a free tool binds the requester to the free tool
\* with the smallest total_usage (ties: smallest tool_id) and logs
\* TOOL_ASSIGNED; nobody is removed, no other binding and no other customer's
\* state changes.
C6_FreeToolStep(i, duration) ==
  (Request(i, duration) /\ \E f \in Tools : shm.tools[f].current_user = -1)
  => \E f \in Tools :
       /\ IsLeastUsedFreeTool(f)
       /\ shm'.tools[f].current_user = i
       /\ shm'.customers[i].state = USING
       /\ shm'.customers[i].current_tool = f
       /\ LoggedOn(EVENT_TOOL_ASSIGNED, i, f)
       /\ Notified(i, EVENT_TOOL_ASSIGNED, f)
       /\ \A c \in Slots : ~Logged(EVENT_TOOL_REMOVED, c)
       /\ \A t \in Tools \ {f} : shm'.tools[t] = shm.tools[t]
       /\ \A c \in Slots \ {i} : shm'.customers[c] = shm.customers[c]

C6_FreeTool ==
  [][\A i \in Slots, duration \in 1 .. LongDuration : C6_FreeToolStep(i, duration)]_vars

\* a REQUEST of a customer found two tools, one used before, both free, and
\* was bound to the one with the smaller total_usage although its id is larger
C6_Witness ==
  /\ last.op = "request"
  /\ shm.num_tools = 2
  /\ shm.tools[0].current_user = -1
  /\ shm.tools[0].total_usage > 0
  /\ shm.tools[1].total_usage = 0
  /\ shm.tools[1].current_user = last.idx
  /\ Len(stdout) = 1
  /\ stdout[1].event = EVENT_TOOL_ASSIGNED

\* the tool with the largest recorded current_usage, ties to the smallest id
IsLongestUsedTool(h) ==
  /\ h \in Tools
  /\ \A t \in Tools :
       \/ shm.tools[h].current_usage > shm.tools[t].current_usage
       \/ (shm.tools[h].current_usage = shm.tools[t].current_usage /\ h <= t)

\* C7: a REQUEST that finds no free tool takes the tool of the holder H with
\* the largest recorded usage iff H.share >= requester.share and that usage
\* >= q; then H is logged TOOL_REMOVED, is Waiting and queued with key equal
\* to its updated share, and the requester is Using on that tool.  No other
\* tool changes its holder.
C7_PreemptStep(i, duration) ==
  (Request(i, duration) /\ NoFreeTool)
  => \E h \in Tools :
       LET H == shm.tools[h].current_user
           test == /\ shm.customers[H].share >= shm.customers[i].share
                   /\ shm.tools[h].current_usage >= shm.q
           takes == /\ shm'.tools[h].current_user = i
                    /\ shm'.customers[i].state = USING
                    /\ shm'.customers[i].current_tool = h
                    /\ Logged(EVENT_TOOL_REMOVED, H)
       IN /\ IsLongestUsedTool(h)
          /\ takes <=> test
          /\ test => /\ shm'.customers[H].state = WAITING
                     /\ H \in HeapMembers(shm')
                     /\ shm'.heap_nodes[H].key = shm'.customers[H].share
                     /\ shm'.customers[H].share =
                          shm.customers[H].share
                            + (now - shm.customers[H].session_start) * ShareScale
          /\ \A t \in Tools \ {h} :
               shm'.tools[t].current_user = shm.tools[t].current_user

C7_RequestPreempt ==
  [][\A i \in Slots, duration \in 1 .. LongDuration : C7_PreemptStep(i, duration)]_vars

\* the preemption test of a REQUEST: the holder of the longest-used tool has
\* at least the requester's share and has been recorded at q or more
RequestTest(i) ==
  \E h \in Tools :
    /\ IsLongestUsedTool(h)
    /\ shm.customers[shm.tools[h].current_user].share >= shm.customers[i].share
    /\ shm.tools[h].current_usage >= shm.q

\* C8: a REQUEST(duration) of a Resting customer that finds no free tool and
\* fails the preemption test makes the requester Waiting, queued exactly once
\* with key = its share, waiting_count + 1, resting_customers - 1,
\* request_duration = remaining_duration = duration; tools, other customers
\* and all shares stay as they were.
C8_EnqueueStep(i, duration) ==
  (/\ Request(i, duration)
   /\ shm.customers[i].state = RESTING
   /\ NoFreeTool
   /\ ~RequestTest(i))
  => /\ shm'.customers[i].state = WAITING
     /\ Cardinality({p \in 0 .. (shm'.heap_size - 1) : shm'.heap_array[p] = i}) = 1
     /\ shm'.heap_nodes[i].heap_index # NIL
     /\ shm'.heap_nodes[i].key = shm'.customers[i].share
     /\ shm'.customers[i].share = shm.customers[i].share
     /\ shm'.waiting_count = shm.waiting_count + 1
     /\ shm'.resting_customers = shm.resting_customers - 1
     /\ shm'.customers[i].request_duration = duration
     /\ shm'.customers[i].remaining_duration = duration
     /\ shm'.tools = shm.tools
     /\ shm'.total_share = shm.total_share
     /\ \A c \in Slots \ {i} : shm'.customers[c] = shm.customers[c]
     /\ stdout' = <<>>

C8_Enqueue ==
  [][\A i \in Slots, duration \in 1 .. LongDuration : C8_EnqueueStep(i, duration)]_vars

\* a REQUEST has just queued its customer behind a running holder
C8_Witness ==
  /\ last.op = "request"
  /\ shm.customers[last.idx].state = WAITING
  /\ shm.heap_nodes[last.idx].heap_index # NIL
  /\ shm.waiting_count = 1
  /\ \E t \in Tools : shm.tools[t].current_user \notin {-1, last.idx}

\* C9: a tick that finds the holder unfinished and q <= elapsed < Q preempts
\* it iff the queue is non-empty and the smallest queued share is below the
\* holder's share; then the holder is logged TOOL_REMOVED and re-queued with
\* its updated share and a minimum waiter gets the tool.  A tick that finds the
\* holder unfinished with elapsed < Q and does not meet that condition (equal
\* shares, empty queue, elapsed < q) changes only current_usage and
\* remaining_duration.
C9_ShareStep(t) ==
  LET u == Holder(t)
      unfinished == shm.customers[u].request_duration - Elapsed(t) > 0
      cond == /\ Elapsed(t) >= shm.q
              /\ shm.heap_size > 0
              /\ \E c \in Slots : IsMinWaiter(c)
                                  /\ shm.customers[c].share < shm.customers[u].share
  IN
  (ToolTick(t) /\ u # -1 /\ unfinished /\ Elapsed(t) < shm.Q)
  => /\ Logged(EVENT_TOOL_REMOVED, u) <=> cond
     /\ cond =>
          /\ shm'.customers[u].state = WAITING
          /\ u \in HeapMembers(shm')
          /\ shm'.customers[u].share = shm.customers[u].share + Elapsed(t) * ShareScale
          /\ shm'.heap_nodes[u].key = shm'.customers[u].share
          /\ IsMinWaiter(shm'.tools[t].current_user)
          /\ Logged(EVENT_TOOL_ASSIGNED, shm'.tools[t].current_user)
          /\ Notified(u, EVENT_TOOL_REMOVED, shm.customers[u].current_tool)
          /\ Notified(shm'.tools[t].current_user, EVENT_TOOL_ASSIGNED, t)
     /\ ~cond =>
          /\ stdout' = <<>>
          /\ shm' = [shm EXCEPT
                       !.tools[t].current_usage = Elapsed(t),
                       !.customers[u].remaining_duration =
                          shm.customers[u].request_duration - Elapsed(t)]

C9_SharePreempt == [][\A t \in 0 .. (MaxTools - 1) : C9_ShareStep(t)]_vars

\* C10: a tick that finds elapsed >= request_duration logs TOOL_COMPLETED and
\* no TOOL_REMOVED for the holder, leaves it Resting without a tool,
\* resting_customers + 1, and the tool bound to a minimum waiter if the queue
\* was non-empty, free otherwise.
C10_CompleteStep(t) ==
  LET u == Holder(t) IN
  (ToolTick(t) /\ u # -1 /\ Elapsed(t) >= shm.customers[u].request_duration)
  => /\ Logged(EVENT_TOOL_COMPLETED, u)
     /\ ~Logged(EVENT_TOOL_REMOVED, u)
     /\ shm'.customers[u].state = RESTING
     /\ shm'.customers[u].current_tool = -1
     /\ shm'.resting_customers = shm.resting_customers + 1
     /\ IF shm.heap_size > 0
        THEN IsMinWaiter(shm'.tools[t].current_user)
        ELSE shm'.tools[t].current_user = -1

C10_Completion == [][\A t \in 0 .. (MaxTools - 1) : C10_CompleteStep(t)]_vars

\* a tick has just removed a holder whose session lasted at least q and less
\* than Q, and handed the tool to another customer
C9_Witness ==
  /\ last.op = "tick"
  /\ Len(stdout) = 2
  /\ stdout[1].event = EVENT_TOOL_REMOVED
  /\ stdout[1].usage >= shm.q
  /\ stdout[1].usage < shm.Q
  /\ stdout[2].event = EVENT_TOOL_ASSIGNED
  /\ stdout[2].customer # stdout[1].customer
  /\ shm.customers[stdout[1].customer].state = WAITING
  /\ shm.tools[last.idx].current_user = stdout[2].customer

\* C11: a REST of a Using customer logs TOOL_COMPLETED for it, unbinds its
\* tool, leaves it Resting with current_tool = -1 and resting_customers + 1;
\* the tool goes to a minimum waiter (logged TOOL_ASSIGNED) if the queue was
\* non-empty and is free otherwise.
C11_RestUsingStep(i) ==
  LET t == shm.customers[i].current_tool IN
  (Rest(i) /\ shm.customers[i].state = USING)
  => /\ t \in Tools
     /\ LoggedOn(EVENT_TOOL_COMPLETED, i, t)
     /\ shm'.tools[t].current_user # i
     /\ shm'.customers[i].state = RESTING
     /\ shm'.customers[i].current_tool = -1
     /\ shm'.resting_customers = shm.resting_customers + 1
     /\ IF shm.heap_size > 0
        THEN /\ IsMinWaiter(shm'.tools[t].current_user)
             /\ LoggedOn(EVENT_TOOL_ASSIGNED, shm'.tools[t].current_user, t)
        ELSE shm'.tools[t].current_user = -1

\* C11, second sentence: a REST that directly follows a REQUEST of the same
\* customer leaves it Resting, with current_tool = -1 and current_user of no
\* tool.
C11_RequestRestStep(i) ==
  (Rest(i) /\ last.op = "request" /\ last.idx = i)
  => /\ shm'.customers[i].state = RESTING
     /\ shm'.customers[i].current_tool = -1
     /\ \A t \in Tools : shm'.tools[t].current_user # i

C11_RestUsing ==
  [][\A i \in Slots : C11_RestUsingStep(i) /\ C11_RequestRestStep(i)]_vars

\* C12: a REST of a Waiting customer takes it out of the queue, decrements
\* waiting_count (undoing the increment of its REQUEST) and leaves it
\* Resting; from then until its next REQUEST (or its disconnect) no
\* TOOL_ASSIGNED is logged for the customer.
C12_CancelStep(i) ==
  /\ (Rest(i) /\ shm.customers[i].state = WAITING)
     => /\ i \notin HeapMembers(shm')
        /\ shm'.heap_nodes[i].heap_index = NIL
        /\ shm'.waiting_count = shm.waiting_count - 1
        /\ shm'.customers[i].state = RESTING
  /\ (i \in cancelled /\ i \in cancelled')
     => ~Logged(EVENT_TOOL_ASSIGNED, i)

C12_CancelWaiting == [][\A i \in Slots : C12_CancelStep(i)]_vars

\* C13: a REST of a customer that is already Resting changes nothing: the
\* counters, the queue, the tools, every customer record (with its event
\* slot) stay as they were and nothing is logged.
C13_RestIdempotentStep(i) ==
  (Rest(i) /\ shm.customers[i].state = RESTING)
  => /\ shm' = shm
     /\ stdout' = <<>>

C13_RestIdempotent == [][\A i \in Slots : C13_RestIdempotentStep(i)]_vars

\* a customer that never held a tool and is not a cancelled waiter has just
\* sent REST while another customer holds a tool
C13_Witness ==
  /\ last.op = "rest"
  /\ shm.customers[last.idx].state = RESTING
  /\ shm.customers[last.idx].event_type = EVENT_NONE
  /\ last.idx \notin cancelled
  /\ shm.resting_customers = 1
  /\ \E t \in Tools : shm.tools[t].current_user \notin {-1, last.idx}

\* C14: after the disconnect of a customer, whatever its state was, it is not
\* in the queue and current_user of no tool, a tool it held has gone to a
\* minimum waiter (or is free if nobody waited), its slot is back on the free
\* list with is_allocated = 0 and state Deleted, total_customers is one less
\* and so is the Resting or Waiting counter that counted it.
C14_DisconnectStep(i) ==
  LET c == shm.customers[i]
      t == c.current_tool
  IN
  Quit(i)
  => /\ i \notin HeapMembers(shm')
     /\ \A u \in Tools : shm'.tools[u].current_user # i
     /\ (c.state = USING /\ t \in Tools) =>
          IF shm.heap_size > 0 THEN IsMinWaiter(shm'.tools[t].current_user)
          ELSE shm'.tools[t].current_user = -1
     /\ shm'.customers[i].is_allocated = 0
     /\ shm'.customers[i].state = DELETED
     /\ shm'.free_customer_count = shm.free_customer_count + 1
     /\ shm'.free_customer_slots[shm.free_customer_count] = i
     /\ shm'.total_customers = shm.total_customers - 1
     /\ c.state = RESTING => shm'.resting_customers = shm.resting_customers - 1
     /\ c.state = WAITING => shm'.waiting_count = shm.waiting_count - 1

C14_Disconnect == [][\A i \in Slots : C14_DisconnectStep(i)]_vars

AllocatedSet == {i \in Slots : Allocated(i)}

\* C15: whenever the mutex is free, total_customers is the number of
\* connected customers (slots with is_allocated = 1).
C15_TotalCustomers == shm.total_customers = Cardinality(AllocatedSet)

\* C16: whenever the mutex is free, resting_customers is the number of
\* allocated customers whose state is Resting.
C16_RestingCount ==
  shm.resting_customers
    = Cardinality({i \in AllocatedSet : shm.customers[i].state = RESTING})

RECURSIVE SumShare(_)
SumShare(S) ==
  IF S = {} THEN 0
  ELSE LET i == CHOOSE x \in S : TRUE
       IN shm.customers[i].share + SumShare(S \ {i})

\* C17: whenever the mutex is free, total_share is the sum of the shares of
\* the connected customers.
C17_TotalShare == shm.total_share = SumShare(AllocatedSet)

\* C18: whenever the mutex is free, a customer in state Using has a valid
\* current_tool and a customer in any other state has current_tool = -1.
C18_CurrentTool ==
  \A c \in Slots :
    IF shm.customers[c].state = USING
    THEN shm.customers[c].current_tool \in Tools
    ELSE shm.customers[c].current_tool = -1

\* C19 as stated: in every reachable state a tool with a current_user has
\* 0 <= current_usage <= Q + TickSlack, whoever is queued.
C19_UsageBound ==
  \A t \in Tools :
    shm.tools[t].current_user # -1 =>
      /\ 0 <= shm.tools[t].current_usage
      /\ shm.tools[t].current_usage <= shm.Q + TickSlack

\* C19 amended: current_usage of a held tool is never negative, and a tick
\* that finds a holder and a non-empty queue leaves the tool with
\* current_usage < Q (the holder went on below Q, or the tool started a new
\* session at 0).  With an empty queue the holder is kept past Q.
C19_WaiterBoundStep(t) ==
  /\ shm'.tools[t].current_user # -1 => shm'.tools[t].current_usage >= 0
  /\ (ToolTick(t) /\ Holder(t) # -1 /\ shm.heap_size > 0)
     => /\ shm'.tools[t].current_user # -1
        /\ shm'.tools[t].current_usage < shm.Q

C19_WaiterBound == [][\A t \in Tools : C19_WaiterBoundStep(t)]_vars

\* a late tick found a waiter and a holder past Q + TickSlack, removed the
\* holder and started a new session on the tool
C19_Witness ==
  /\ last.op = "tick"
  /\ Len(stdout) = 2
  /\ stdout[1].event = EVENT_TOOL_REMOVED
  /\ stdout[1].usage > shm.Q + TickSlack
  /\ stdout[2].event = EVENT_TOOL_ASSIGNED
  /\ shm.tools[last.idx].current_user = stdout[2].customer
  /\ shm.tools[last.idx].current_usage = 0

\* the tools whose holder lost its session in the step just taken: the tool
\* has another current_user, or a new TOOL_ASSIGNED was logged on it
UnboundTools ==
  {t \in Tools :
     /\ Holder(t) # -1
     /\ \/ shm'.tools[t].current_user # Holder(t)
        \/ \E n \in DOMAIN stdout' :
             stdout'[n].event = EVENT_TOOL_ASSIGNED /\ stdout'[n].tool = t}

\* C20: every step that ends the session of the holder u of a tool t, with
\* delta = now - u.session_start, adds exactly delta to u.share, to
\* total_share and to t.total_usage and logs the removal or completion with
\* the updated share; no step changes any other tool's total_usage or the
\* share of any other connected customer.
C20_ShareAccountingStep ==
  /\ \A t \in UnboundTools :
       LET u == Holder(t)
           delta == now - shm.customers[u].session_start
       IN /\ shm'.customers[u].share = shm.customers[u].share + delta * ShareScale
          /\ shm'.total_share = shm.total_share + delta * ShareScale
          /\ shm'.tools[t].total_usage = shm.tools[t].total_usage + delta
          /\ \E n \in DOMAIN stdout' :
               /\ stdout'[n].event \in {EVENT_TOOL_REMOVED, EVENT_TOOL_COMPLETED}
               /\ stdout'[n].customer = u
               /\ stdout'[n].tool = t
               /\ stdout'[n].share = shm'.customers[u].share \div ShareScale
  /\ \A t \in Tools \ UnboundTools :
       shm'.tools[t].total_usage = shm.tools[t].total_usage
  /\ \A c \in AllocatedSet \ {Holder(t) : t \in UnboundTools} :
       shm'.customers[c].share = shm.customers[c].share

C20_ShareAccounting == [][C20_ShareAccountingStep]_vars

\* C21: a customer that connects starts Resting with share equal to the
\* average share of the customers connected at that moment, 0 if nobody is
\* connected (share * number connected = sum of their shares).
C21_InitialShareStep ==
  LET idx == allocate_customer_result(World) IN
  Connect
  => /\ shm'.customers[idx].state = RESTING
     /\ IF AllocatedSet = {} THEN shm'.customers[idx].share = 0
        ELSE shm'.customers[idx].share * Cardinality(AllocatedSet)
               = SumShare(AllocatedSet)

C21_InitialShare == [][C21_InitialShareStep]_vars

\* ------------------------------------------------------- events and log
\* C25: within one critical section at most one event is written to any one
\* customer's event slot (every logged line writes the slot of its customer).
C25_OneEventPerSection ==
  \A m, n \in DOMAIN stdout :
    m # n => stdout[m].customer # stdout[n].customer

\* C26: the line a customer's agent writes to the socket is the latest line
\* standard output has about that customer, with the same event, tool and
\* share, and that line was not sent before (so the socket lines are a
\* subsequence of the log lines); every event put into a slot has its log
\* line in the same critical section.
C26_SendStep(i) ==
  NotifySend(i)
  => /\ log.line[i] # NoLine
     /\ ~log.sent[i]
     /\ socket' = <<log.line[i]>>

C26_EventStep(i) ==
  LET c == shm.customers[i]
      d == shm'.customers[i]
  IN (/\ d.event_pending = 1
      /\ \/ c.event_pending = 0
         \/ c.event_type # d.event_type
         \/ c.event_tool_id # d.event_tool_id)
     => /\ LinesOf(stdout', i) # {}
        /\ stdout'[Latest(LinesOf(stdout', i))].event = d.event_type
        /\ stdout'[Latest(LinesOf(stdout', i))].tool = d.event_tool_id

C26_SocketLines ==
  [][\A i \in Slots : C26_SendStep(i) /\ C26_EventStep(i)]_vars

\* a removal with a share that the session raised has just been sent
C26_Witness ==
  /\ last.op = "send"
  /\ socket # <<>>
  /\ socket[1].event = EVENT_TOOL_REMOVED
  /\ socket[1].share > 0
  /\ socket[1].customer = last.idx
  /\ log.sent[last.idx]

\* C27: in the log restricted to one tool, lines alternate: an assignment of
\* customer c to tool t is followed by the removal or leave of c from t
\* before the next assignment to t (so in a preemption the holder's removal
\* is printed before the successor's assignment).
RECURSIVE Alternates(_, _)
Alternates(holder, lines) ==
  IF lines = <<>> THEN TRUE
  ELSE LET l == Head(lines)
       IN IF l.event = EVENT_TOOL_ASSIGNED
          THEN /\ holder[l.tool] = NIL
               /\ Alternates([holder EXCEPT ![l.tool] = l.customer], Tail(lines))
          ELSE /\ holder[l.tool] = l.customer
               /\ Alternates([holder EXCEPT ![l.tool] = NIL], Tail(lines))

C27_ToolLogAlternates == [][Alternates(log.holder, stdout')]_vars

\* ------------------------------------------------ one tool, long requests
\* the server started with k = 1 and the largest Q, and requests of every
\* duration up to LongDuration
OneToolInit ==
  /\ \E q \in 1 .. MaxQuantum :
       shm = setup_shared_memory(q, MaxQuantum, 1)
  /\ now = 0
  /\ stdout = <<>>
  /\ last = [op |-> "init", idx |-> -1]
  /\ commands = 0
  /\ cancelled = {}
  /\ socket = <<>>
  /\ log = NoLog
  /\ mutex = NoThread
  /\ pc = Started

LongRequest(i, duration) ==
  /\ duration \in 1 .. LongDuration
  /\ Submit(i, duration)

OneToolNext ==
  \/ Connect
  \/ \E i \in Slots, duration \in 1 .. LongDuration : LongRequest(i, duration)
  \/ \E i \in Slots : Rest(i)
  \/ \E i \in Slots : Quit(i)
  \/ \E i \in Slots : NotifySend(i)
  \/ ToolTick(0)
  \/ Advance

OneToolSpec == OneToolInit /\ [][OneToolNext]_vars

\* A holds the only tool, B is the only waiter, their shares are equal and
\* both asked for more than Q
TwoLongRequests(A, B) ==
  /\ A # B
  /\ Allocated(A) /\ Allocated(B)
  /\ shm.num_tools = 1
  /\ Holder(0) = A
  /\ shm.customers[A].state = USING
  /\ shm.customers[A].current_tool = 0
  /\ shm.customers[B].state = WAITING
  /\ HeapMembers(shm) = {B}
  /\ shm.customers[A].share = shm.customers[B].share
  /\ shm.customers[A].request_duration > shm.Q
  /\ shm.customers[B].request_duration > shm.Q

\* B's REQUEST for more than Q arrives while A's recorded usage is below q:
\* B is queued, A keeps the tool, nothing is logged
C28_ArrivalStep(A, B) ==
  (/\ A # B
   /\ Allocated(A)
   /\ shm.num_tools = 1
   /\ Holder(0) = A
   /\ shm.customers[A].state = USING
   /\ shm.customers[A].current_tool = 0
   /\ shm.heap_size = 0
   /\ shm.customers[A].request_duration > shm.Q
   /\ shm.customers[B].state = RESTING
   /\ shm.customers[B].current_tool = -1
   /\ shm.customers[A].share = shm.customers[B].share
   /\ shm.tools[0].current_usage < shm.q
   /\ \E duration \in (shm.Q + 1) .. LongDuration : LongRequest(B, duration))
  => /\ TwoLongRequests(A, B)'
     /\ stdout' = <<>>

\* a tick before A has had Q leaves A on the tool and B waiting
C28_EarlyTickStep(A, B) ==
  (TwoLongRequests(A, B) /\ Elapsed(0) < shm.Q /\ ToolTick(0))
  => /\ TwoLongRequests(A, B)'
     /\ stdout' = <<>>

\* C28 as stated: at the first tick that finds A's elapsed time >= Q, A is
\* removed and B is assigned to the same tool.
C28_QuantumTickRemoved(A, B) ==
  (TwoLongRequests(A, B) /\ Elapsed(0) >= shm.Q /\ ToolTick(0))
  => /\ Len(stdout') = 2
     /\ stdout'[1].event = EVENT_TOOL_REMOVED
     /\ stdout'[1].customer = A
     /\ stdout'[1].tool = 0
     /\ stdout'[2].event = EVENT_TOOL_ASSIGNED
     /\ stdout'[2].customer = B
     /\ stdout'[2].tool = 0
     /\ Holder(0)' = B
     /\ shm'.customers[B].state = USING
     /\ shm'.customers[A].state = WAITING

C28_EqualShareHandover ==
  [][\A A, B \in Slots : /\ C28_ArrivalStep(A, B)
                         /\ C28_EarlyTickStep(A, B)
                         /\ C28_QuantumTickRemoved(A, B)]_vars

\* C28 amended: at the first tick that finds A's elapsed time >= Q, A is
\* removed and B is assigned to the same tool if A's elapsed time is still
\* below its requested duration; if the tick comes so late that A has had
\* its whole duration, A leaves the tool as completed and B is assigned to
\* the same tool.
C28_QuantumTickStep(A, B) ==
  (TwoLongRequests(A, B) /\ Elapsed(0) >= shm.Q /\ ToolTick(0))
  => /\ Len(stdout') = 2
     /\ stdout'[1].customer = A
     /\ stdout'[1].tool = 0
     /\ stdout'[2].event = EVENT_TOOL_ASSIGNED
     /\ stdout'[2].customer = B
     /\ stdout'[2].tool = 0
     /\ Holder(0)' = B
     /\ shm'.customers[B].state = USING
     /\ IF Elapsed(0) < shm.customers[A].request_duration
        THEN /\ stdout'[1].event = EVENT_TOOL_REMOVED
             /\ shm'.customers[A].state = WAITING
        ELSE /\ stdout'[1].event = EVENT_TOOL_COMPLETED
             /\ shm'.customers[A].state = RESTING

C28_HandoverOrCompletion ==
  [][\A A, B \in Slots : /\ C28_ArrivalStep(A, B)
                         /\ C28_EarlyTickStep(A, B)
                         /\ C28_QuantumTickStep(A, B)]_vars

\* with q < Q, B was queued behind A and got the tool at a tick that removed
\* A after at least Q
C28_Witness ==
  /\ shm.num_tools = 1
  /\ shm.q < shm.Q
  /\ last.op = "tick"
  /\ Len(stdout) = 2
  /\ stdout[1].event = EVENT_TOOL_REMOVED
  /\ stdout[1].usage >= shm.Q
  /\ stdout[2].event = EVENT_TOOL_ASSIGNED
  /\ stdout[2].customer # stdout[1].customer
  /\ shm.customers[stdout[1].customer].share
       = shm.customers[stdout[2].customer].share + stdout[1].usage * ShareScale
  /\ shm.customers[stdout[1].customer].request_duration > shm.Q
  /\ shm.customers[stdout[2].customer].request_duration > shm.Q

\* ------------------------------------------- lock, section, unlock apart
\* The same program with every critical section taken in two steps: the
\* thread locks the mutex, then runs the section and unlocks.  SIGINT or
\* SIGTERM can reach any process, all of which inherited signal_handler.
Main == <<"main", 0>>
Runner(t) == <<"tool", t>>
Agent(i) == <<"agent", i>>
Notifier(i) == <<"notify", i>>

LockInit ==
  /\ \E k \in 1 .. MaxTools : shm = setup_shared_memory(1, 1, k)
  /\ now = 0
  /\ stdout = <<>>
  /\ last = [op |-> "init", idx |-> -1]
  /\ commands = 0
  /\ cancelled = {}
  /\ socket = <<>>
  /\ log = NoLog
  /\ mutex = NoThread
  /\ pc = Started

\* a lock that does not wait for the mutex
pthread_mutex_lock_through(m) == TRUE

\* pthread_mutex_lock returns once the mutex is free (the mutex is of the
\* default type: locking it again from the thread that holds it never returns)
pthread_mutex_lock(m) == m = NoThread

\* thread p is not inside signal_handler
Awake(p) == pc[p].handler = "no"

\* thread p, at the place from, takes the mutex and moves to the place to
Lock(p, from, to, arg) ==
  /\ pc[p].at = from
  /\ Awake(p)
  /\ pthread_mutex_lock(mutex)
  /\ mutex' = p
  /\ pc' = [pc EXCEPT ![p].at = to, ![p].arg = arg]
  /\ UNCHANGED <<shm, now, stdout, last, cancelled, socket, log>>

\* thread p, at the place from with the mutex, unlocks and moves to to
Unlock(p, from, to) ==
  /\ pc[p].at = from
  /\ Awake(p)
  /\ mutex' = NoThread
  /\ pc' = [pc EXCEPT ![p].at = to]
  /\ UNCHANGED commands

Unchanged == UNCHANGED <<shm, now, stdout, last, cancelled, socket, log>>

\* agent_process: accept, fork, lock
ConnectLock(i) ==
  /\ pc[Main].at = "accept"
  /\ Awake(Main)
  /\ i = allocate_customer_result(World)
  /\ Lock(Agent(i), "unborn", "allocate", 0)
  /\ UNCHANGED commands

\* agent_process: allocate_customer, unlock, create the two threads
Allocate(i) ==
  /\ pc[Agent(i)].at = "allocate"
  /\ Awake(Agent(i))
  /\ Effect(allocate_customer(World, i), "connect", i)
  /\ mutex' = NoThread
  /\ pc' = [pc EXCEPT ![Agent(i)].at = "recv", ![Notifier(i)].at = "wait"]
  /\ UNCHANGED commands

RequestLock(i, duration) ==
  /\ commands < LockEvents
  /\ commands' = commands + 1
  /\ Lock(Agent(i), "recv", "request", duration)

HandleRequest(i) ==
  /\ Effect(handle_request(World, i, pc[Agent(i)].arg), "request", i)
  /\ Unlock(Agent(i), "request", "recv")

RestLock(i) ==
  /\ commands < LockEvents
  /\ commands' = commands + 1
  /\ Lock(Agent(i), "recv", "rest", 0)

HandleRest(i) ==
  /\ Effect(handle_rest(World, i), "rest", i)
  /\ Unlock(Agent(i), "rest", "recv")

\* QUIT or end of file: the reader returns and agent_process locks
QuitLock(i) ==
  /\ commands < LockEvents
  /\ commands' = commands + 1
  /\ Lock(Agent(i), "recv", "cleanup", 0)

Cleanup(i) ==
  /\ Effect(agent_cleanup(World, i), "quit", i)
  /\ Unlock(Agent(i), "cleanup", "join")

\* agent_process after pthread_join(notify_thread)
DeallocateLock(i) ==
  /\ pc[Notifier(i)].at = "exited"
  /\ Lock(Agent(i), "join", "deallocate", 0)
  /\ UNCHANGED commands

Deallocate(i) ==
  /\ Effect(deallocate_customer(World, i), "deallocate", i)
  /\ Unlock(Agent(i), "deallocate", "exited")

\* agent_notify_thread leaves pthread_cond_wait with the mutex
NotifyLock(i) ==
  /\ \/ shm.customers[i].event_pending = 1
     \/ shm.customers[i].is_allocated = 0
  /\ Lock(Notifier(i), "wait", "notify", 0)
  /\ UNCHANGED commands

NotifyUnlock(i) ==
  IF shm.customers[i].is_allocated = 0
  THEN Unchanged /\ Unlock(Notifier(i), "notify", "exited")
  ELSE /\ Effect(agent_notify_thread(World, i), "send", i)
       /\ Unlock(Notifier(i), "notify", "wait")

\* tool_process: pthread_mutex_lock at the top of the loop; an iteration
\* that would take resting_customers out of CounterRange is not followed
RunnerLock(t) ==
  /\ t < shm.num_tools
  /\ \/ tool_process(World, t).resting_customers = shm.resting_customers
     \/ tool_process(World, t).resting_customers \in CounterRange
  /\ Lock(Runner(t), "loop", "locked", 0)
  /\ UNCHANGED commands

\* tool_process with the mutex: leave on the flag, wait if idle, else tick
RunnerSection(t) ==
  /\ t < shm.num_tools
  /\ pc[Runner(t)].at = "locked"
  /\ IF shm.server_should_exit = 1
     THEN Unchanged /\ Unlock(Runner(t), "locked", "exited")
     ELSE IF shm.tools[t].current_user = -1
     THEN Unchanged /\ Unlock(Runner(t), "locked", "wait")
     ELSE /\ Effect(tool_process(World, t), "tick", t)
          /\ Unlock(Runner(t), "locked", "loop")

\* pthread_cond_timedwait returns, by the broadcast or the timeout, with
\* the mutex
RunnerWake(t) ==
  /\ Lock(Runner(t), "wait", "woken", 0)
  /\ UNCHANGED commands

RunnerUnlock(t) == Unchanged /\ Unlock(Runner(t), "woken", "loop")

\* a thread that can be interrupted
Live(p) ==
  /\ pc[p].at \notin {"unborn", "exited"}
  /\ p[1] = "tool" => p[2] < shm.num_tools

\* a signal interrupts thread p, which enters signal_handler
Signal(p) ==
  /\ Live(p)
  /\ pc[p].handler = "no"
  /\ commands < LockEvents
  /\ commands' = commands + 1
  /\ pc' = [pc EXCEPT ![p].handler = "lock"]
  /\ UNCHANGED mutex
  /\ Unchanged

\* signal_handler: pthread_mutex_lock
HandlerLock(p) ==
  /\ pc[p].handler = "lock"
  /\ pthread_mutex_lock(mutex)
  /\ mutex' = p
  /\ pc' = [pc EXCEPT ![p].handler = "set"]
  /\ UNCHANGED commands
  /\ Unchanged

\* signal_handler: set the flag, broadcast, unlock, return; in the acceptor
\* should_exit and the closed listener end the accept loop
HandlerSet(p) ==
  /\ pc[p].handler = "set"
  /\ Effect(signal_handler(World), "signal", -1)
  /\ mutex' = NoThread
  /\ pc' = [pc EXCEPT ![p].handler = "no",
                       ![p].at = IF p = Main THEN "reap" ELSE @]
  /\ UNCHANGED commands

\* the clock moves on between critical sections
Elapse ==
  /\ now < LockTime
  /\ mutex = NoThread
  /\ now' = now + 1
  /\ UNCHANGED <<shm, stdout, last, commands, cancelled, socket, log, mutex, pc>>

LockNext ==
  \/ \E i \in Slots : ConnectLock(i)
  \/ \E i \in Slots : Allocate(i)
  \/ \E i \in Slots, duration \in 1 .. MaxDuration : RequestLock(i, duration)
  \/ \E i \in Slots : HandleRequest(i)
  \/ \E i \in Slots : RestLock(i)
  \/ \E i \in Slots : HandleRest(i)
  \/ \E i \in Slots : QuitLock(i)
  \/ \E i \in Slots : Cleanup(i)
  \/ \E i \in Slots : DeallocateLock(i)
  \/ \E i \in Slots : Deallocate(i)
  \/ \E i \in Slots : NotifyLock(i)
  \/ \E i \in Slots : NotifyUnlock(i)
  \/ \E t \in 0 .. (MaxTools - 1) : RunnerLock(t)
  \/ \E t \in 0 .. (MaxTools - 1) : RunnerSection(t)
  \/ \E t \in 0 .. (MaxTools - 1) : RunnerWake(t)
  \/ \E t \in 0 .. (MaxTools - 1) : RunnerUnlock(t)
  \/ \E p \in Threads : Signal(p)
  \/ \E p \in Threads : HandlerLock(p)
  \/ \E p \in Threads : HandlerSet(p)
  \/ Elapse

LockSpec == LockInit /\ [][LockNext]_vars

\* the threads that are between a lock and its unlock
InSection ==
  {p \in Threads :
     \/ pc[p].at \in {"allocate", "request", "rest", "cleanup", "deallocate",
                      "notify", "locked", "woken"}
     \/ pc[p].handler = "set"}

\* C29: every change of shared memory is made by a thread that holds the
\* mutex, and at most one thread is between lock and unlock at any time.
C29_MutationStep ==
  shm' # shm
  => /\ mutex \in InSection
     /\ pc'[mutex] # pc[mutex]
     /\ \A r \in Threads \ {mutex} : pc'[r].at \in {pc[r].at, "wait"}
     /\ mutex' = NoThread

C29_ExclusionStep ==
  /\ Cardinality(InSection') <= 1
  /\ InSection' = {mutex'} \ {NoThread}

C29_UnderMutex == [][C29_MutationStep /\ C29_ExclusionStep]_vars

\* a runner has charged a session inside its section while an agent with a
\* command and a signal handler stand at the mutex
C29_Witness ==
  /\ last.op = "tick"
  /\ stdout # <<>>
  /\ mutex \in {Agent(i) : i \in Slots}
  /\ pc[mutex].at = "request"
  /\ \E p \in Threads : pc[p].handler = "lock"

\* ----------------------------------------------------------- shutdown
\* every thread that can take a step eventually takes one: a runner sleeps
\* 10 ms between iterations and wakes from its wait after 1 s at the latest,
\* a section runs to its unlock, a handler runs to its return
RunnerStep(t) ==
  RunnerLock(t) \/ RunnerSection(t) \/ RunnerWake(t) \/ RunnerUnlock(t)

AgentStep(i) ==
  \/ Allocate(i) \/ HandleRequest(i) \/ HandleRest(i)
  \/ Cleanup(i) \/ DeallocateLock(i) \/ Deallocate(i)

NotifyStep(i) == NotifyLock(i) \/ NotifyUnlock(i)

HandlerStep(p) == HandlerLock(p) \/ HandlerSet(p)

LockLive ==
  /\ LockSpec
  /\ \A t \in 0 .. (MaxTools - 1) : WF_vars(RunnerStep(t))
  /\ \A i \in Slots : WF_vars(AgentStep(i)) /\ WF_vars(NotifyStep(i))
  /\ \A p \in Threads : WF_vars(HandlerStep(p))

RunnersExited ==
  \A t \in 0 .. (MaxTools - 1) :
    t < shm.num_tools => pc[Runner(t)].at = "exited"

\* C30: once signal_handler has set server_should_exit, every tool runner
\* leaves its loop within finite time.
C30_RunnersExit == (shm.server_should_exit = 1) ~> RunnersExited

\* the other half of C30: a runner that takes the mutex after the flag is
\* set changes nothing in shared memory
C30_NoRunnerMutation ==
  [][\A t \in 0 .. (MaxTools - 1) :
       (shm.server_should_exit = 1 /\ RunnerSection(t)) => shm' = shm]_vars

\* ------------------------------------------------- the heap on its own
\* heap.c driven directly: shm holds only the three heap fields, the keys are
\* drawn at the start and never modified.  heap.c treats all node indices
\* alike, so the keys are drawn non-decreasing in the node index.
HeapIndices == 0 .. (HeapNodes - 1)

HeapInit ==
  /\ \E keys \in [HeapIndices -> 0 .. HeapMaxKey] :
       /\ \A i \in HeapIndices : i > 0 => keys[i - 1] <= keys[i]
       /\ shm = [heap_nodes |-> [i \in HeapIndices |->
                                   [key |-> keys[i], heap_index |-> NIL]],
                 heap_array |-> [i \in HeapIndices |-> 0],
                 heap_size |-> 0]
  /\ now = 0
  /\ stdout = <<>>
  /\ last = [op |-> "init", idx |-> -1, ret |-> 0]
  /\ commands = 0
  /\ cancelled = {}
  /\ socket = <<>>
  /\ log = NoLog
  /\ mutex = NoThread
  /\ pc = Started

HeapCall(s, op, idx, ret) ==
  /\ commands < HeapCalls
  /\ commands' = commands + 1
  /\ shm' = Shm(s)
  /\ last' = [op |-> op, idx |-> idx, ret |-> ret]
  /\ UNCHANGED <<now, stdout, cancelled, socket, log, mutex, pc>>

HeapInsert(n) ==
  /\ n \in -1 .. HeapNodes
  /\ HeapCall(heap_insert(World, n), "heap_insert", n,
              heap_insert_result(World, n))

HeapPop ==
  /\ commands < HeapCalls
  /\ HeapCall(heap_pop(World), "heap_pop", -1, heap_pop_result(World))

HeapDelete(n) ==
  /\ n \in -1 .. HeapNodes
  /\ HeapCall(heap_delete(World, n), "heap_delete", n,
              heap_delete_result(World, n))

HeapNext ==
  \/ \E n \in -1 .. HeapNodes : HeapInsert(n)
  \/ HeapPop
  \/ \E n \in -1 .. HeapNodes : HeapDelete(n)

HeapSpec == HeapInit /\ [][HeapNext]_vars

\* min-heap order of HEAP_ARRAY[0 .. heap_size-1] of m, with back-pointers
\* that name each queued node's position
MinHeapOrder(m) ==
  /\ \A p \in 1 .. (m.heap_size - 1) :
       m.heap_nodes[m.heap_array[heap_parent(p)]].key
         <= m.heap_nodes[m.heap_array[p]].key
  /\ \A p \in 0 .. (m.heap_size - 1) :
       m.heap_nodes[m.heap_array[p]].heap_index = p

\* C22: after every call the array is in min-heap order; heap_pop on a
\* non-empty heap removes exactly the node it returns, whose key is <= the key
\* of every node that remains; on an empty heap it returns NIL and changes
\* nothing.
C22_PopStep ==
  /\ MinHeapOrder(shm')
  /\ HeapPop =>
       IF shm.heap_size = 0
       THEN last'.ret = NIL /\ shm' = shm
       ELSE /\ last'.ret \in HeapMembers(shm)
            /\ HeapMembers(shm') = HeapMembers(shm) \ {last'.ret}
            /\ shm'.heap_size = shm.heap_size - 1
            /\ shm'.heap_nodes[last'.ret].heap_index = NIL
            /\ \A m \in HeapMembers(shm') :
                 shm.heap_nodes[last'.ret].key <= shm'.heap_nodes[m].key

C22_HeapPop == [][C22_PopStep]_vars

\* a pop has just taken the minimum out of a heap of at least five nodes
C22_Witness ==
  /\ last.op = "heap_pop"
  /\ last.ret # NIL
  /\ shm.heap_size >= 4
  /\ shm.heap_nodes[shm.heap_array[0]].key > shm.heap_nodes[last.ret].key

\* C23: heap_insert of a node that is already queued, of an index out of
\* range, or into a full heap returns -1 and leaves HEAP_ARRAY, heap_size and
\* every back-pointer as they were.
C23_RejectStep(n) ==
  (/\ HeapInsert(n)
   /\ \/ n \notin HeapIndices
      \/ shm.heap_nodes[n].heap_index # NIL
      \/ shm.heap_size >= HeapNodes)
  => /\ last'.ret = -1
     /\ shm'.heap_array = shm.heap_array
     /\ shm'.heap_size = shm.heap_size
     /\ \A i \in HeapIndices :
          shm'.heap_nodes[i].heap_index = shm.heap_nodes[i].heap_index

C23_InsertRejected == [][\A n \in -1 .. HeapNodes : C23_RejectStep(n)]_vars

\* a queued node was inserted again into a heap that is not full
C23_Witness ==
  /\ last.op = "heap_insert"
  /\ last.ret = -1
  /\ last.idx \in HeapIndices
  /\ shm.heap_nodes[last.idx].heap_index # NIL
  /\ shm.heap_size > 1
  /\ shm.heap_size < HeapNodes

\* C24: heap_delete(n) of a queued node removes exactly n, wherever it sits:
\* the queued set is the old one minus n, min-heap order holds and n's
\* back-pointer is NIL; for a node that is not queued it returns -1 and
\* changes nothing.
C24_DeleteStep(n) ==
  HeapDelete(n) =>
    IF n \in HeapIndices /\ shm.heap_nodes[n].heap_index # NIL
    THEN /\ last'.ret = 0
         /\ HeapMembers(shm') = HeapMembers(shm) \ {n}
         /\ shm'.heap_size = shm.heap_size - 1
         /\ shm'.heap_nodes[n].heap_index = NIL
         /\ MinHeapOrder(shm')
    ELSE /\ last'.ret = -1
         /\ shm' = shm

C24_HeapDelete == [][\A n \in -1 .. HeapNodes : C24_DeleteStep(n)]_vars

\* a node that was neither the root nor the last one has just been deleted
\* from a full heap, and the root is smaller than it
C24_Witness ==
  /\ last.op = "heap_delete"
  /\ last.ret = 0
  /\ shm.heap_size = HeapNodes - 1
  /\ shm.heap_array[shm.heap_size] = last.idx
  /\ shm.heap_nodes[shm.heap_array[0]].key < shm.heap_nodes[last.idx].key

\* ------------------------------------------------------- service accounting
\* C31: a customer gets TOOL_COMPLETED once the tool time it has received
\* since its REQUEST d, summed over all its sessions, reaches d: a tick that
\* finds the holder's earlier sessions plus the current one at d or more
\* completes it.
C31_ServiceStep(t) ==
  LET c == Holder(t) IN
  (/\ last'.op = "tick"
   /\ last'.idx = t
   /\ c # -1
   /\ log.served[c] + Elapsed(t) >= shm.customers[c].request_duration)
  => LoggedOn(EVENT_TOOL_COMPLETED, c, t)

C31_TotalService == [][\A t \in Tools : C31_ServiceStep(t)]_vars

\* C32: heap_insert is never called for a customer that is already in the
\* queue, and the key of a customer that stays queued is never rewritten: no
\* REQUEST and no runner tick makes heap_insert answer "already in the heap",
\* and a customer queued before and after a step keeps its key.
C32_RequestStep(i, duration) ==
  (/\ last'.op = "request"
   /\ last'.idx = i
   /\ shm' = Shm(handle_request(World, i, duration)))
  => handle_request(World, i, duration).rejected = <<>>

C32_TickStep(t) ==
  (last'.op = "tick" /\ last'.idx = t)
  => tool_process(World, t).rejected = <<>>

C32_KeyStep(i) ==
  (InHeap(shm, i) /\ InHeap(shm', i))
  => shm'.heap_nodes[i].key = shm.heap_nodes[i].key

C32_NoDoubleInsert ==
  [][/\ \A i \in Slots, duration \in 1 .. LongDuration :
          C32_RequestStep(i, duration)
     /\ \A t \in Tools : C32_TickStep(t)
     /\ \A i \in Slots : C32_KeyStep(i)]_vars

\* ------------------------------------------------------------ heap back-map
\* C33: after any sequence of heap_insert, heap_pop and heap_delete, every
\* position i < heap_size holds a node whose heap_index is i, every node
\* outside HEAP_ARRAY[0 .. heap_size-1] has heap_index NIL, no node occurs
\* twice in the array, and heap_size is the number of nodes whose heap_index
\* is not NIL.
C33_BackMap ==
  /\ \A i \in 0 .. (shm.heap_size - 1) :
       /\ shm.heap_array[i] \in HeapIndices
       /\ shm.heap_nodes[shm.heap_array[i]].heap_index = i
  /\ \A n \in HeapIndices :
       n \notin HeapMembers(shm) => shm.heap_nodes[n].heap_index = NIL
  /\ \A i, j \in 0 .. (shm.heap_size - 1) :
       shm.heap_array[i] = shm.heap_array[j] => i = j
  /\ shm.heap_size = Cardinality({n \in HeapIndices : InHeap(shm, n)})

\* a deletion from inside a heap of at least four nodes that moved the last
\* node into the hole, leaving at least three
C33_Witness ==
  /\ last.op = "heap_delete"
  /\ last.ret = 0
  /\ shm.heap_size >= 3
  /\ \E n \in HeapIndices : InHeap(shm, n) /\ shm.heap_nodes[n].key < shm.heap_nodes[last.idx].key

\* ---------------------------------------------------------- agent shutdown
\* an agent thread that stands at pthread_mutex_lock gets the mutex in the
\* end: the runners sleep 10 ms outside the mutex between two iterations
\* and every section is finite
AgentLive ==
  /\ LockSpec
  /\ \A t \in 0 .. (MaxTools - 1) : WF_vars(RunnerStep(t))
  /\ \A i \in Slots : SF_vars(AgentStep(i)) /\ SF_vars(NotifyStep(i))
  /\ \A p \in Threads : WF_vars(HandlerStep(p))

AgentExited(i) ==
  pc[Notifier(i)].at = "exited" /\ pc[Agent(i)].at = "exited"

\* C34: after the socket reader of an agent has ended, its event forwarder
\* exits and agent_process completes its cleanup within finite time.
C34_AgentExits ==
  \A i \in Slots : (pc[Agent(i)].at = "cleanup") ~> AgentExited(i)

\* the other half of C34: the forwarder takes no event out of the slot of a
\* customer that was marked deallocated
C34_NoLateSend ==
  [][\A i \in Slots :
       (last'.op = "send" /\ last'.idx = i /\ shm' # shm)
       => shm.customers[i].is_allocated = 1]_vars

\* ------------------------------------------------------------ customer slots
\* C35: customer slots are conserved: free_customer_count plus the number
\* of connected customers equals the capacity of the table, so that the slot
\* of a disconnected customer is free again and a connection is rejected
\* only while capacity-many customers are connected.
C35_SlotsConserved ==
  /\ shm.free_customer_count + Cardinality(AllocatedSet) = MaxCustomers
  /\ allocate_customer_result(World) = -1
       => Cardinality(AllocatedSet) = MaxCustomers

\* C36: a tool is never bound to a customer whose agent has disconnected:
\* after the cleanup of a QUIT or end of file no tool has the customer's slot
\* as current_user.
C36_NoToolForDisconnected ==
  \A c \in Slots :
    (shm.customers[c].customer_id # -1 /\ ~Allocated(c))
    => \A t \in Tools : Holder(t) # c

\* ---------------------------------------------------------- work conservation
\* C37: whenever the mutex is free, no tool is free (current_user = -1)
\* while the waiting queue is non-empty.
C37_WorkConserving ==
  (\E t \in Tools : Holder(t) = -1) => shm.heap_size = 0

\* ---------------------------------------------------------------- heap keys
\* C40: whenever the mutex is free, the heap key of every customer in the
\* waiting heap equals that customer's current share, so the share of the
\* root customer, which the runner compares with the holder's, is the
\* minimum key.
C40_KeyIsShare ==
  /\ \A i \in Slots :
       InHeap(shm, i) => shm.heap_nodes[i].key = shm.customers[i].share
  /\ shm.heap_size > 0
       => \A i \in HeapMembers(shm) :
            shm.customers[shm.heap_array[0]].share <= shm.heap_nodes[i].key

\* ---------------------------------------------------------------- long runs
\* Runs without an end need a finite picture of the clock and of the shares.
\* The scheduler reads times and shares only through differences (elapsed
\* times, comparisons of shares and keys), so LongRunSpec measures every time
\* stamp from the current instant and every share from the smallest one.
\* Differences are followed up to a cap: a session older than SessionCap
\* (which every test of tool_process already answers like SessionCap itself)
\* and a share more than MaxSpread above the smallest.
MaxSpread == 1

SessionCap == MaxDuration

RECURSIVE connect_all(_, _)
connect_all(s, n) ==
  IF n = 0 THEN s
  ELSE connect_all(allocate_customer(s, allocate_customer_result(s)), n - 1)

RECURSIVE ShareSum(_)
ShareSum(customers) ==
  IF DOMAIN customers = {} THEN 0
  ELSE LET i == CHOOSE j \in DOMAIN customers : TRUE
       IN customers[i].share
            + ShareSum([j \in DOMAIN customers \ {i} |-> customers[j]])

MinOf(S) == CHOOSE x \in S : \A y \in S : x <= y

Clamp(x, lo, hi) == IF x < lo THEN lo ELSE IF x > hi THEN hi ELSE x

\* shares and keys measured from the smallest share, total_usage from the
\* smallest one; fields that are written before they are read again (the
\* session_start of an unbound customer or tool, the key of a node outside
\* the heap) and the counters that only REPORT reads are brought to one value
Rebase(s) ==
  LET base == MinOf({s.customers[i].share : i \in Slots})
      used == MinOf({s.tools[t].total_usage : t \in DOMAIN s.tools})
      top == MaxSpread * ShareScale
      customers ==
        [i \in Slots |->
           [s.customers[i] EXCEPT
              !.share = Clamp(@ - base, 0, top),
              !.session_start =
                 IF s.customers[i].current_tool = -1 THEN 0 ELSE @,
              !.remaining_duration = 0,
              !.event_pending = 0,
              !.event_type = EVENT_NONE,
              !.event_tool_id = 0]]
      lost == ShareSum(s.customers) - ShareSum(customers)
  IN [s EXCEPT
        !.customers = customers,
        !.heap_nodes =
           [i \in Slots |->
              [s.heap_nodes[i] EXCEPT
                 !.key = IF s.heap_nodes[i].heap_index = NIL THEN 0
                         ELSE Clamp(@ - base, 0 - ShareScale, top)]],
        !.tools =
           [t \in DOMAIN s.tools |->
              [s.tools[t] EXCEPT
                 !.total_usage = Clamp(@ - used, 0, MaxSpread),
                 !.session_start =
                    IF s.tools[t].current_user = -1 THEN 0 ELSE @]],
        !.total_share = @ - lost,
        !.waiting_count = 0,
        !.resting_customers = 0]

\* one millisecond passes: every running session is one millisecond older
Older(s) ==
  [s EXCEPT
     !.customers =
        [i \in Slots |->
           [s.customers[i] EXCEPT
              !.session_start =
                 IF s.customers[i].current_tool = -1 THEN 0
                 ELSE Clamp(@ - 1, 0 - SessionCap, 0)]],
     !.tools =
        [t \in DOMAIN s.tools |->
           [s.tools[t] EXCEPT
              !.session_start =
                 IF s.tools[t].current_user = -1 THEN 0
                 ELSE Clamp(@ - 1, 0 - SessionCap, 0)]]]

LongRunInit ==
  /\ \E k \in 1 .. MaxTools :
       shm = connect_all(setup_shared_memory(1, 1, k), MaxCustomers)
  /\ now = 0
  /\ stdout = <<>>
  /\ last = [op |-> "init", idx |-> -1]
  /\ commands = 0
  /\ cancelled = {}
  /\ socket = <<>>
  /\ log = NoLog
  /\ mutex = NoThread
  /\ pc = Started

\* a critical section taken as one step
Steady(s, op, idx) ==
  /\ \E r \in {Rebase(s)} : shm' = Shm(r)
  /\ stdout' = s.stdout
  /\ last' = [op |-> op, idx |-> idx]
  /\ UNCHANGED <<now, commands, cancelled, socket, log, mutex, pc>>

SteadyRequest(i, duration) ==
  /\ Running(i)
  /\ Steady(handle_request(World, i, duration), "request", i)

SteadyRest(i) ==
  /\ Running(i)
  /\ Steady(handle_rest(World, i), "rest", i)

SteadyTick(tool_id) ==
  /\ tool_id < shm.num_tools
  /\ Steady(tool_process(World, tool_id), "tick", tool_id)

Pass ==
  /\ shm' = Shm(Older(World))
  /\ stdout' = <<>>
  /\ last' = [op |-> "advance", idx |-> -1]
  /\ UNCHANGED <<now, commands, cancelled, socket, log, mutex, pc>>

LongRunNext ==
  \/ \E i \in Slots, duration \in 1 .. MaxDuration : SteadyRequest(i, duration)
  \/ \E i \in Slots : SteadyRest(i)
  \/ \E tool_id \in 0 .. (MaxTools - 1) : SteadyTick(tool_id)
  \/ Pass

\* the clock keeps moving
LongRunSpec == LongRunInit /\ [][LongRunNext]_vars /\ WF_vars(Pass)

\* the same runs with customers that follow the protocol of the assignment:
\* a customer that holds a tool sends REST before its next REQUEST
OrderlyRequest(i, duration) ==
  /\ shm.customers[i].state # USING
  /\ SteadyRequest(i, duration)

OrderlyNext ==
  \/ \E i \in Slots, duration \in 1 .. MaxDuration : OrderlyRequest(i, duration)
  \/ \E i \in Slots : SteadyRest(i)
  \/ \E tool_id \in 0 .. (MaxTools - 1) : SteadyTick(tool_id)
  \/ Pass

OrderlySpec == LongRunInit /\ [][OrderlyNext]_vars /\ WF_vars(Pass)

\* fair scheduling of the runners: every runner keeps iterating (it sleeps
\* 10 ms between two iterations)
RunnersIterate ==
  \A tool_id \in 0 .. (MaxTools - 1) :
    []<>(tool_id >= shm.num_tools \/ (last.op = "tick" /\ last.idx = tool_id))

Completed(i) ==
  \E n \in DOMAIN stdout :
    stdout[n].event = EVENT_TOOL_COMPLETED /\ stdout[n].customer = i

Withdrew(i) == last.op \in {"rest", "quit"} /\ last.idx = i

Spoke(i) == last.op \in {"request", "rest", "quit"} /\ last.idx = i

\* a request of customer i is outstanding
Pending(i) == Allocated(i) /\ shm.customers[i].state \in {WAITING, USING}

\* C38: every customer that issues REQUEST d and afterwards neither issues
\* REST nor disconnects eventually receives TOOL_COMPLETED for that request:
\* when the runners keep iterating, no customer stays for ever with an
\* outstanding request, sending nothing more and never completed.
C38_CompletionLiveness ==
  RunnersIterate
  => \A i \in Slots : []<>(~Pending(i) \/ Spoke(i) \/ Completed(i))

\* C39: every Waiting customer that neither issues REST nor disconnects is
\* eventually assigned a tool.
C39_NoStarvation ==
  RunnersIterate
  => \A i \in Slots :
       (Allocated(i) /\ shm.customers[i].state = WAITING)
         ~> (\/ shm.customers[i].state = USING
             \/ Withdrew(i))

====
